---- MODULE Spec2Model ----
(***************************************************************************)
(* The sliding-tile puzzle generator and A*-style solver of 8_puzzle.py,    *)
(* and, in a section of its own, the backtracking solver of 8_queens.py.   *)
(* A grid is a tuple of rows, each a tuple of labels (Python's list of      *)
(* lists); rows and columns are numbered from 0 as in the source, so cell  *)
(* (r, c) is the element [r + 1][c + 1]; the empty cell holds None.        *)
(***************************************************************************)
EXTENDS Integers, Sequences, FiniteSets, TLC

\* The board size of the program (8_puzzle.py line 14).
BOARD_SIZE == 3

\* The largest board below the reference one: its whole search space can be
\* exhausted, which the runs that end without a solution need.
SmallBoard == BOARD_SIZE - 1

\* Python's None, the empty cell (falsy, like 0, in heuristic_cost).
None == 0

\* Initial states of the reference board lie at most this many moves from the goal.
MaxScramble == 4

\* Shortest distances to the goal are computed up to this many moves.
MaxDistance == 12

\* generate_random_problem is exercised on the shuffles that permute the cells
\* of the last FreeRows rows and leave the rows above in their goal order.
FreeRows == 2

VARIABLES
    size,            \* the module global BOARD_SIZE of this run
    pc,              \* position of the run
    initial_state,   \* argument of solve_puzzle
    queue,           \* the PriorityQueue: a set of (cost, node) entries
    visited_states,  \* the set of expanded grids
    solution,        \* <<>> for None, <<node>> for a returned StateWithParent
    output,          \* what print_solution prints
    available_values,\* generate_random_problem: the shuffled list
    generated_state, \* generate_random_problem: the returned grid
    grid,            \* argument of a heuristic_cost or get_available_actions call
    cost,            \* result of a heuristic_cost call
    available_actions, \* result of a get_available_actions call
    called,          \* the closure of that list that was called
    moved,           \* the grid it returned
    restored,        \* the grid the opposite closure returned
    queens_size,     \* 8_queens.py: the module global BOARD_SIZE of this run
    board,           \* 8_queens.py: the board passed to backtracking
    frames,          \* 8_queens.py: the active calls of backtracking
    result           \* 8_queens.py: <<>> or <<the value the first call returned>>

vars == <<size, pc, initial_state, queue, visited_states, solution, output,
          available_values, generated_state, grid, cost,
          available_actions, called, moved, restored,
          queens_size, board, frames, result>>

Idx == 0..(size - 1)

Abs(x) == IF x < 0 THEN -x ELSE x

Min(S) == CHOOSE x \in S : \A y \in S : x <= y

Max(S) == CHOOSE x \in S : \A y \in S : x >= y

Range(s) == {s[i] : i \in 1..Len(s)}

RECURSIVE Reverse(_)
Reverse(s) == IF s = <<>> THEN <<>> ELSE Reverse(Tail(s)) \o <<Head(s)>>

-----------------------------------------------------------------------------
(* Moves: swap and the four move_* functions.                              *)

\* swap with the second assignment left out.
swap_one_cell(state, r1, c1, r2, c2) ==
    [state EXCEPT ![r1 + 1][c1 + 1] = state[r2 + 1][c2 + 1]]

\* new_state is a deep copy of state with the two cells exchanged.
swap(state, r1, c1, r2, c2) ==
    [state EXCEPT ![r1 + 1][c1 + 1] = state[r2 + 1][c2 + 1],
                  ![r2 + 1][c2 + 1] = state[r1 + 1][c1 + 1]]

move_right(state, r, c) == swap(state, r, c, r, c + 1)

move_left(state, r, c) == swap(state, r, c, r, c - 1)

move_up(state, r, c) == swap(state, r, c, r - 1, c)

move_down(state, r, c) == swap(state, r, c, r + 1, c)

-----------------------------------------------------------------------------
(* heuristic_cost.                                                         *)

\* cell_distance with the horizontal step left out.
cell_distance_rows_only(state, row_idx, col_idx) ==
    LET raw == state[row_idx + 1][col_idx + 1]
        value == IF raw = None \/ raw < 0 THEN size * size ELSE raw
        expected_row == (value - 1) \div size
    IN  Abs(expected_row - row_idx)

\* The distance added for one cell: the empty cell is given the value
\* BOARD_SIZE * BOARD_SIZE before its expected row and column are computed.
cell_distance(state, row_idx, col_idx) ==
    LET raw == state[row_idx + 1][col_idx + 1]
        value == IF raw = None \/ raw < 0 THEN size * size ELSE raw
        expected_row == (value - 1) \div size
        vertical_step == Abs(expected_row - row_idx)
        expected_col == (value - size * expected_row) - 1
        horizontal_step == Abs(expected_col - col_idx)
    IN  vertical_step + horizontal_step

RECURSIVE SumCells(_, _)
SumCells(state, k) ==
    IF k = size * size THEN 0
    ELSE cell_distance(state, k \div size, k % size) + SumCells(state, k + 1)

heuristic_cost(state) == SumCells(state, 0)

-----------------------------------------------------------------------------
(* get_available_actions.                                                  *)

\* The scan for the empty cell: the inner loop breaks at the first None of a
\* row, the outer loop goes on, so the last row holding a None wins; (0, 0)
\* when there is none.
empty_cell(state) ==
    LET rows == {r \in Idx : \E c \in Idx : state[r + 1][c + 1] = None}
    IN  IF rows = {} THEN <<0, 0>>
        ELSE LET r == Max(rows)
             IN  <<r, Min({c \in Idx : state[r + 1][c + 1] = None})>>

\* get_available_actions with the first test reading empty_row > 1.
get_available_actions_up_from_row_2(state) ==
    LET empty_row == empty_cell(state)[1]
        empty_col == empty_cell(state)[2]
        act(m) == [move |-> m, row |-> empty_row, col |-> empty_col]
    IN  (IF empty_row > 1 THEN <<act("up")>> ELSE <<>>)
        \o (IF empty_row < size - 1 THEN <<act("down")>> ELSE <<>>)
        \o (IF empty_col > 0 THEN <<act("left")>> ELSE <<>>)
        \o (IF empty_col < size - 1 THEN <<act("right")>> ELSE <<>>)

\* The list of closures, each remembering empty_row and empty_col.
get_available_actions(state) ==
    LET empty_row == empty_cell(state)[1]
        empty_col == empty_cell(state)[2]
        act(m) == [move |-> m, row |-> empty_row, col |-> empty_col]
    IN  (IF empty_row > 0 THEN <<act("up")>> ELSE <<>>)
        \o (IF empty_row < size - 1 THEN <<act("down")>> ELSE <<>>)
        \o (IF empty_col > 0 THEN <<act("left")>> ELSE <<>>)
        \o (IF empty_col < size - 1 THEN <<act("right")>> ELSE <<>>)

\* Calling one of the closures on s.
apply_action(action, s) ==
    CASE action.move = "up" -> move_up(s, action.row, action.col)
      [] action.move = "down" -> move_down(s, action.row, action.col)
      [] action.move = "left" -> move_left(s, action.row, action.col)
      [] action.move = "right" -> move_right(s, action.row, action.col)

\* swap_argument with new_state bound to state itself instead of a copy: the
\* first assignment overwrites a cell of the argument, the second reads it back.
swap_argument_aliased(state, r1, c1, r2, c2) ==
    [state EXCEPT ![r1 + 1][c1 + 1] = state[r2 + 1][c2 + 1]]

\* What a call of swap leaves in its argument: new_state is a deep copy and
\* the two assignments go to the copy, so the argument keeps its cells.
swap_argument(state, r1, c1, r2, c2) == state

\* The argument s of a closure after the call.
action_argument(action, s) ==
    CASE action.move = "up" ->
             swap_argument(s, action.row, action.col, action.row - 1, action.col)
      [] action.move = "down" ->
             swap_argument(s, action.row, action.col, action.row + 1, action.col)
      [] action.move = "left" ->
             swap_argument(s, action.row, action.col, action.row, action.col - 1)
      [] action.move = "right" ->
             swap_argument(s, action.row, action.col, action.row, action.col + 1)

\* The closures from the i-th on called in turn on the same list object,
\* current_state being what the calls before have left in it.
RECURSIVE map_actions(_, _, _)
map_actions(actions, i, current_state) ==
    IF i > Len(actions) THEN <<>>
    ELSE <<apply_action(actions[i], current_state)>>
         \o map_actions(actions, i + 1, action_argument(actions[i], current_state))

\* successor_states = map(lambda action: action(current_state), actions)
successor_states(current_state) ==
    map_actions(get_available_actions(current_state), 1, current_state)

-----------------------------------------------------------------------------
(* Problem generator.                                                      *)

\* is_problem_solvable counting the pairs with the empty value too.
is_problem_solvable_all_pairs(values) ==
    LET n == Len(values)
        inv == Cardinality({p \in (1..n) \X (1..n) :
                   p[1] < p[2] /\ values[p[1]] > values[p[2]]})
    IN  inv % 2 = 0

is_problem_solvable(values) ==
    LET n == Len(values)
        inv == Cardinality({p \in (1..n) \X (1..n) :
                   /\ p[1] < p[2]
                   /\ values[p[1]] # n
                   /\ values[p[2]] # n
                   /\ values[p[1]] > values[p[2]]})
    IN  inv % 2 = 0

\* The fill loop of generate_random_problem: the value max_value becomes None.
materialize(values) ==
    LET max_value == size * size
    IN  [r \in 1..size |-> [c \in 1..size |->
            LET value == values[(r - 1) * size + c]
            IN  IF value = max_value THEN None ELSE value]]

-----------------------------------------------------------------------------
(* The inputs.                                                             *)

\* The orders of 1..n that random.shuffle can leave a list of 1..n in.
Perms(n) == Permutations(1..n)

\* Every valid grid of the board.
Grids == {materialize(p) : p \in Perms(size * size)}

ValidGrid(state) ==
    /\ DOMAIN state = 1..size
    /\ \A r \in 1..size : DOMAIN state[r] = 1..size
    /\ \A v \in 1..(size * size - 1) :
          Cardinality({p \in (1..size) \X (1..size) : state[p[1]][p[2]] = v}) = 1
    /\ Cardinality({p \in (1..size) \X (1..size) : state[p[1]][p[2]] = None}) = 1

\* Tiles 1..N*N-1 in row-major order, the empty cell last.
GoalState == materialize([i \in 1..(size * size) |-> i])

\* The grids one legal move of the blank away from s.
Neighbours(s) == Range(successor_states(s))

\* The grids at most k moves from the goal (a move is undone by the opposite move).
RECURSIVE Ball(_)
Ball(k) ==
    IF k = 0 THEN {GoalState}
    ELSE UNION {B \cup UNION {Neighbours(s) : s \in B} : B \in {Ball(k - 1)}}

RECURSIVE Closure(_, _)
Closure(seen, frontier) ==
    IF frontier = {} THEN seen
    ELSE UNION {Closure(all, all \ seen) :
                   all \in {seen \cup UNION {Neighbours(s) : s \in frontier}}}

RECURSIVE RegionClosure(_, _, _)
RegionClosure(region, seen, frontier) ==
    IF frontier = {} THEN seen
    ELSE UNION {RegionClosure(region, all, all \ seen) :
                   all \in {seen \cup (region \cap UNION {Neighbours(s) : s \in frontier})}}

\* The grids from which the goal can be reached.
Solvable == Closure({GoalState}, {GoalState})

\* The shortest number of moves between s and the goal, for s within k moves.
RECURSIVE DistWithin(_, _)
DistWithin(s, k) ==
    IF k = 0 \/ s \notin Ball(k - 1) THEN k ELSE DistWithin(s, k - 1)

flatten(state) ==
    [i \in 1..(size * size) |->
        LET v == state[((i - 1) \div size) + 1][((i - 1) % size) + 1]
        IN  IF v = None THEN size * size ELSE v]

\* Inputs of solve_puzzle.  On the reference board: the grids 1..MaxScramble
\* moves from the goal.  On the small board: every grid on which the inversion
\* parity decides solvability, as it does on every grid of the reference board
\* (on an even-width board parity alone does not).
Inputs ==
    IF size = BOARD_SIZE THEN Ball(MaxScramble) \ {GoalState}
    ELSE {s \in Grids : is_problem_solvable(flatten(s)) <=> s \in Solvable}

-----------------------------------------------------------------------------
(* solve_puzzle.                                                           *)

NoParent == <<>>

StateWithParent(state, parent) == [state |-> state, parent |-> parent]

\* The entries queue.get() may return: those of least cost; the uuid4 drawn at
\* put time orders equal costs, in any order.
Lowest(q) == {e \in q : \A f \in q : e.cost <= f.cost}

\* for_successors without the return on heuristic cost 0.
RECURSIVE for_successors_no_goal_test(_, _, _, _, _, _)
for_successors_no_goal_test(succs, i, current, parent_cost, visited, q) ==
    IF i > Len(succs) THEN [queue |-> q, returned |-> <<>>]
    ELSE LET state == succs[i]
             new_state_with_parent == StateWithParent(state, <<current>>)
             total_cost == heuristic_cost(state) + parent_cost
         IN  IF state \in visited
             THEN for_successors_no_goal_test(succs, i + 1, current, parent_cost, visited, q)
             ELSE for_successors_no_goal_test(succs, i + 1, current, parent_cost, visited,
                      q \cup {[cost |-> total_cost, node |-> new_state_with_parent]})

\* for_successors without the test against visited_states.
RECURSIVE for_successors_unvisited_or_not(_, _, _, _, _, _)
for_successors_unvisited_or_not(succs, i, current, parent_cost, visited, q) ==
    IF i > Len(succs) THEN [queue |-> q, returned |-> <<>>]
    ELSE LET state == succs[i]
             new_state_with_parent == StateWithParent(state, <<current>>)
             c == heuristic_cost(state)
             total_cost == c + parent_cost
         IN  IF c = 0
             THEN [queue |-> q, returned |-> <<new_state_with_parent>>]
             ELSE for_successors_unvisited_or_not(succs, i + 1, current, parent_cost, visited,
                      q \cup {[cost |-> total_cost, node |-> new_state_with_parent]})

\* The for loop over successor_states from its i-th element on: q is the queue
\* so far; stops at the first unvisited successor of heuristic cost 0.
RECURSIVE for_successors(_, _, _, _, _, _)
for_successors(succs, i, current, parent_cost, visited, q) ==
    IF i > Len(succs) THEN [queue |-> q, returned |-> <<>>]
    ELSE LET state == succs[i]
             new_state_with_parent == StateWithParent(state, <<current>>)
             c == heuristic_cost(state)
             total_cost == c + parent_cost
         IN  IF state \in visited
             THEN for_successors(succs, i + 1, current, parent_cost, visited, q)
             ELSE IF c = 0
             THEN [queue |-> q, returned |-> <<new_state_with_parent>>]
             ELSE for_successors(succs, i + 1, current, parent_cost, visited,
                      q \cup {[cost |-> total_cost, node |-> new_state_with_parent]})

\* One pass of the while loop with e the entry popped (the successor list and
\* the result are each computed once and bound).
iteration(e, q, visited) ==
    LET current_state == e.node.state
        visited2 == visited \cup {current_state}
    IN  CHOOSE it \in
            {[queue |-> res.queue, visited |-> visited2, returned |-> res.returned] :
                res \in {for_successors(succs, 1, e.node, e.cost, visited2, q \ {e}) :
                            succs \in {successor_states(current_state)}}} : TRUE

\* No call of get_available_actions or of backtracking is made.
NoCalls ==
    /\ available_actions = <<>>
    /\ called = <<>>
    /\ moved = <<>>
    /\ restored = <<>>
    /\ queens_size = 0
    /\ board = <<>>
    /\ frames = <<>>
    /\ result = <<>>

UnchangedCalls ==
    UNCHANGED <<available_actions, called, moved, restored,
                queens_size, board, frames, result>>

UnchangedOthers ==
    /\ UNCHANGED <<available_values, generated_state, grid, cost>>
    /\ UnchangedCalls

\* A pass that returns no node: the loop goes on.
Expand(e) ==
    /\ pc = "search"
    /\ e \in Lowest(queue)
    /\ \E it \in {iteration(e, queue, visited_states)} :
           /\ it.returned = <<>>
           /\ queue' = it.queue
           /\ visited_states' = it.visited
    /\ UNCHANGED <<size, pc, initial_state, solution, output>>
    /\ UnchangedOthers

\* A pass that meets a successor of heuristic cost 0 and returns it.
Solve(e) ==
    /\ pc = "search"
    /\ e \in Lowest(queue)
    /\ \E it \in {iteration(e, queue, visited_states)} :
           /\ it.returned # <<>>
           /\ queue' = it.queue
           /\ visited_states' = it.visited
           /\ solution' = it.returned
    /\ pc' = "solved"
    /\ UNCHANGED <<size, initial_state, output>>
    /\ UnchangedOthers

\* The queue is empty: return None.
Exhaust ==
    /\ pc = "search"
    /\ queue = {}
    /\ pc' = "exhausted"
    /\ solution' = <<>>
    /\ UNCHANGED <<size, initial_state, queue, visited_states, output>>
    /\ UnchangedOthers

-----------------------------------------------------------------------------
(* print_solution.                                                         *)

\* stack_of stopping at the node below the root.
RECURSIVE stack_of_without_root(_)
stack_of_without_root(node) ==
    IF node.parent = NoParent THEN <<>>
    ELSE <<node.state>> \o stack_of_without_root(node.parent[1])

\* The stack built by following the parent links: the returned node first.
RECURSIVE stack_of(_)
stack_of(node) ==
    <<node.state>> \o (IF node.parent = NoParent THEN <<>> ELSE stack_of(node.parent[1]))

\* The states in the order print_solution pops and prints them.
print_solution(initial, sol) ==
    IF sol = <<>> THEN [kind |-> "NO SOLUTION", states |-> <<initial>>]
    ELSE [kind |-> "START", states |-> Reverse(stack_of(sol[1]))]

Report ==
    /\ pc \in {"solved", "exhausted"}
    /\ output' = print_solution(initial_state, solution)
    /\ pc' = "printed"
    /\ UNCHANGED <<size, initial_state, queue, visited_states, solution>>
    /\ UnchangedOthers

-----------------------------------------------------------------------------
(* The search on every input, ties resolved in every order.                *)

NoOutput == [kind |-> "", states |-> <<>>]

SearchInit(sizes) ==
    /\ size \in sizes
    /\ initial_state \in Inputs
    /\ pc = "search"
    /\ queue = {[cost |-> 0, node |-> StateWithParent(initial_state, NoParent)]}
    /\ visited_states = {}
    /\ solution = <<>>
    /\ output = NoOutput
    /\ available_values = <<>>
    /\ generated_state = <<>>
    /\ grid = <<>>
    /\ cost = 0
    /\ NoCalls

Init == SearchInit({SmallBoard, BOARD_SIZE})

Next ==
    \/ \E e \in queue : Expand(e)
    \/ \E e \in queue : Solve(e)
    \/ Exhaust
    \/ Report

Spec == Init /\ [][Next]_vars

\* The loop and the call of print_solution run to completion.
FairSpec == Spec /\ WF_vars(Next)

-----------------------------------------------------------------------------
(* heuristic_cost called on every valid grid of the reference board.       *)

HeurInit ==
    /\ size = BOARD_SIZE
    /\ grid \in Grids
    /\ cost = 0
    /\ pc = "heuristic"
    /\ initial_state = <<>>
    /\ queue = {}
    /\ visited_states = {}
    /\ solution = <<>>
    /\ output = NoOutput
    /\ available_values = <<>>
    /\ generated_state = <<>>
    /\ NoCalls

Evaluate ==
    /\ pc = "heuristic"
    /\ cost' = heuristic_cost(grid)
    /\ pc' = "evaluated"
    /\ UNCHANGED <<size, initial_state, queue, visited_states, solution, output,
                   available_values, generated_state, grid>>
    /\ UnchangedCalls

HeurNext == Evaluate

HeurSpec == HeurInit /\ [][HeurNext]_vars

-----------------------------------------------------------------------------
(* generate_random_problem.                                                *)

\* The results of random.shuffle the model draws: the first rows in goal
\* order, the cells of the last FreeRows rows in any order.
Shuffles ==
    LET fixed == (size - FreeRows) * size
    IN  {[i \in 1..fixed |-> i] \o [i \in 1..Len(p) |-> p[i] + fixed] :
            p \in Perms(size * size - fixed)}

\* The grids of those shuffles from which the goal can be reached through
\* grids of those shuffles.
SolvableShuffles ==
    LET region == {materialize(p) : p \in Shuffles}
    IN  RegionClosure(region, {GoalState}, {GoalState})

GenInit ==
    /\ size = BOARD_SIZE
    /\ available_values \in Shuffles
    /\ generated_state = <<>>
    /\ pc = "shuffled"
    /\ initial_state = <<>>
    /\ queue = {}
    /\ visited_states = {}
    /\ solution = <<>>
    /\ output = NoOutput
    /\ grid = <<>>
    /\ cost = 0
    /\ NoCalls

\* while not is_problem_solvable(available_values): random.shuffle(...)
Reshuffle ==
    /\ pc = "shuffled"
    /\ ~is_problem_solvable(available_values)
    /\ available_values' \in Shuffles
    /\ UNCHANGED <<size, pc, initial_state, queue, visited_states, solution,
                   output, generated_state, grid, cost>>
    /\ UnchangedCalls

\* The fill loop and the return.
Fill ==
    /\ pc = "shuffled"
    /\ is_problem_solvable(available_values)
    /\ generated_state' = materialize(available_values)
    /\ pc' = "generated"
    /\ UNCHANGED <<size, initial_state, queue, visited_states, solution, output,
                   available_values, grid, cost>>
    /\ UnchangedCalls

GenNext == Reshuffle \/ Fill

GenSpec == GenInit /\ [][GenNext]_vars

-----------------------------------------------------------------------------
(* One run per input: the uuids drawn order equal costs one fixed way.     *)

\* The shortest number of moves from s to the goal, up to MaxDistance.
Distance(s) == DistWithin(s, MaxDistance)

\* A grid of the reference board farther from the goal than MaxScramble moves.
FarInputs == {materialize(<<1, 2, 9, 4, 7, 3, 8, 5, 6>>)}

\* The entry queue.get() returns in such a run.
Drawn(q) == CHOOSE e \in Lowest(q) : TRUE

DrawInit ==
    /\ SearchInit({SmallBoard, BOARD_SIZE})
       \/ /\ size = BOARD_SIZE
          /\ initial_state \in FarInputs
          /\ pc = "search"
          /\ queue = {[cost |-> 0, node |-> StateWithParent(initial_state, NoParent)]}
          /\ visited_states = {}
          /\ solution = <<>>
          /\ output = NoOutput
          /\ available_values = <<>>
          /\ generated_state = <<>>
          /\ grid = <<>>
          /\ cost = 0
          /\ NoCalls

DrawNext ==
    \/ queue # {} /\ Expand(Drawn(queue))
    \/ queue # {} /\ Solve(Drawn(queue))
    \/ Exhaust
    \/ Report

SpecDraw == DrawInit /\ [][DrawNext]_vars

-----------------------------------------------------------------------------
(* get_available_actions and the closures it returns, called on grids of   *)
(* the reference board, with and without an empty cell.                    *)

\* Grids in which no cell holds None: the cells of the shuffles as they are,
\* the value BOARD_SIZE * BOARD_SIZE left in place.
Unmarked ==
    {[r \in 1..size |-> [c \in 1..size |-> p[(r - 1) * size + c]]] : p \in Shuffles}

\* The valid grids the calls are made on: those of the shuffles and those at
\* most MaxScramble moves from the goal, which put the empty cell in every
\* cell of the board.
Marked == {materialize(p) : p \in Shuffles} \cup Ball(MaxScramble)

MoveInit ==
    /\ size = BOARD_SIZE
    /\ grid \in Marked \cup Unmarked
    /\ pc = "grid"
    /\ available_actions = <<>>
    /\ called = <<>>
    /\ moved = <<>>
    /\ restored = <<>>
    /\ cost = 0
    /\ initial_state = <<>>
    /\ queue = {}
    /\ visited_states = {}
    /\ solution = <<>>
    /\ output = NoOutput
    /\ available_values = <<>>
    /\ generated_state = <<>>
    /\ queens_size = 0
    /\ board = <<>>
    /\ frames = <<>>
    /\ result = <<>>

UnchangedSearch ==
    UNCHANGED <<size, initial_state, queue, visited_states, solution, output,
                available_values, generated_state, cost,
                queens_size, board, frames, result>>

\* available_actions = get_available_actions(grid)
GetActions ==
    /\ pc = "grid"
    /\ available_actions' = get_available_actions(grid)
    /\ pc' = "actions"
    /\ UNCHANGED <<grid, called, moved, restored>>
    /\ UnchangedSearch

\* One closure of the list is called on the grid.
Call(i) ==
    /\ pc = "actions"
    /\ called' = available_actions[i]
    /\ moved' = apply_action(available_actions[i], grid)
    /\ pc' = "moved"
    /\ UNCHANGED <<grid, available_actions, restored>>
    /\ UnchangedSearch

Opposite(move) ==
    CASE move = "up" -> "down"
      [] move = "down" -> "up"
      [] move = "left" -> "right"
      [] move = "right" -> "left"

\* The closure of the opposite direction, taken from get_available_actions of
\* the grid just returned, is called on that grid.
Undo ==
    /\ pc = "moved"
    /\ \E back \in Range(get_available_actions(moved)) :
           /\ back.move = Opposite(called.move)
           /\ restored' = apply_action(back, moved)
    /\ pc' = "restored"
    /\ UNCHANGED <<grid, available_actions, called, moved>>
    /\ UnchangedSearch

MoveNext ==
    \/ GetActions
    \/ \E i \in 1..Len(available_actions) : Call(i)
    \/ Undo

MoveSpec == MoveInit /\ [][MoveNext]_vars

-----------------------------------------------------------------------------
(* 8_queens.py: backtracking on an empty board.  Cell (r, c) of the board  *)
(* is the element [r + 1][c + 1]; frames holds the active calls, innermost *)
(* last, each with its col_idx and the row_idx its loop is about to try.   *)

\* The board size of 8_queens.py (line 7).
QUEENS_BOARD_SIZE == 8

QueensIdx == 0..(queens_size - 1)

\* is_configuration_valid without the diagonal checks.
is_configuration_valid_no_diagonals(b) ==
    \A row_idx \in QueensIdx, col_idx \in QueensIdx :
        b[row_idx + 1][col_idx + 1] =>
            \A i \in QueensIdx :
                /\ ~(i # row_idx /\ b[i + 1][col_idx + 1])
                /\ ~(i # col_idx /\ b[row_idx + 1][i + 1])

\* True unless some queen has another queen in its column, in its row or i
\* cells away along one of its four diagonals.
is_configuration_valid(b) ==
    \A row_idx \in QueensIdx, col_idx \in QueensIdx :
        b[row_idx + 1][col_idx + 1] =>
            \A i \in QueensIdx :
                /\ ~(i # row_idx /\ b[i + 1][col_idx + 1])
                /\ ~(i # col_idx /\ b[row_idx + 1][i + 1])
                /\ i > 0 =>
                       LET diagonal_indexes ==
                               {<<row_idx - i, col_idx - i>>, <<row_idx + i, col_idx + i>>,
                                <<row_idx - i, col_idx + i>>, <<row_idx + i, col_idx - i>>}
                       IN  \A d \in diagonal_indexes :
                               ~(/\ d[1] \in QueensIdx
                                 /\ d[2] \in QueensIdx
                                 /\ b[d[1] + 1][d[2] + 1])

\* n copies of value, appended one at a time.
RECURSIVE repeat(_, _)
repeat(value, n) == IF n = 0 THEN <<>> ELSE Append(repeat(value, n - 1), value)

\* BOARD_SIZE rows, each [False] * BOARD_SIZE.
create_board == repeat(repeat(FALSE, queens_size), queens_size)

\* board[row_idx][col_idx] = value
set_cell(b, row_idx, col_idx, value) == [b EXCEPT ![row_idx + 1][col_idx + 1] = value]

\* The innermost call, and the board with its queen attempted.
current_call == frames[Len(frames)]

attempt == set_cell(board, current_call.row_idx, current_call.col_idx, TRUE)

next_row(call) == [call EXCEPT !.row_idx = call.row_idx + 1]

QueensInit ==
    /\ queens_size \in 1..QUEENS_BOARD_SIZE
    /\ board = create_board
    /\ frames = <<[col_idx |-> 0, row_idx |-> 0]>>
    /\ result = <<>>
    /\ pc = "backtracking"
    /\ size = BOARD_SIZE
    /\ initial_state = <<>>
    /\ queue = {}
    /\ visited_states = {}
    /\ solution = <<>>
    /\ output = NoOutput
    /\ available_values = <<>>
    /\ generated_state = <<>>
    /\ grid = <<>>
    /\ cost = 0
    /\ available_actions = <<>>
    /\ called = <<>>
    /\ moved = <<>>
    /\ restored = <<>>

UnchangedPuzzle ==
    UNCHANGED <<size, initial_state, queue, visited_states, solution, output,
                available_values, generated_state, grid, cost,
                available_actions, called, moved, restored, queens_size>>

\* The queen is placed, the configuration is valid and columns remain: the
\* call for the next column begins.
Place ==
    /\ pc = "backtracking"
    /\ current_call.row_idx < queens_size
    /\ is_configuration_valid(attempt) = TRUE
    /\ current_call.col_idx + 1 < queens_size
    /\ board' = attempt
    /\ frames' = Append(frames, [col_idx |-> current_call.col_idx + 1, row_idx |-> 0])
    /\ UNCHANGED <<pc, result>>
    /\ UnchangedPuzzle

\* The queen is placed, the configuration is valid and this was the last
\* column: True is returned, and every caller returns True in turn.
Complete ==
    /\ pc = "backtracking"
    /\ current_call.row_idx < queens_size
    /\ is_configuration_valid(attempt) = TRUE
    /\ current_call.col_idx + 1 >= queens_size
    /\ board' = attempt
    /\ frames' = <<>>
    /\ result' = <<TRUE>>
    /\ pc' = "returned"
    /\ UnchangedPuzzle

\* The queen is placed and the configuration is invalid: the attempt is
\* reverted and the loop goes to the next row.
Reject ==
    /\ pc = "backtracking"
    /\ current_call.row_idx < queens_size
    /\ is_configuration_valid(attempt) = FALSE
    /\ board' = set_cell(attempt, current_call.row_idx, current_call.col_idx, FALSE)
    /\ frames' = [frames EXCEPT ![Len(frames)] = next_row(current_call)]
    /\ UNCHANGED <<pc, result>>
    /\ UnchangedPuzzle

\* The loop of an inner call is over: it returns False, its caller reverts
\* its own attempt and goes to the next row.
Backtrack ==
    /\ pc = "backtracking"
    /\ current_call.row_idx >= queens_size
    /\ Len(frames) > 1
    /\ LET caller == frames[Len(frames) - 1]
       IN  /\ board' = set_cell(board, caller.row_idx, caller.col_idx, FALSE)
           /\ frames' = SubSeq(frames, 1, Len(frames) - 2) \o <<next_row(caller)>>
    /\ UNCHANGED <<pc, result>>
    /\ UnchangedPuzzle

\* The loop of the first call is over: backtracking(board) returns False.
GiveUp ==
    /\ pc = "backtracking"
    /\ current_call.row_idx >= queens_size
    /\ Len(frames) = 1
    /\ frames' = <<>>
    /\ result' = <<FALSE>>
    /\ pc' = "returned"
    /\ UNCHANGED board
    /\ UnchangedPuzzle

QueensNext == Place \/ Complete \/ Reject \/ Backtrack \/ GiveUp

QueensSpec == QueensInit /\ [][QueensNext]_vars

-----------------------------------------------------------------------------
(* The claims.                                                             *)

Cells == (1..size) \X (1..size)

\* b is a with the blank and one orthogonally adjacent tile exchanged.
OneBlankMove(a, b) ==
    \E p \in Cells, q \in Cells :
        /\ a[p[1]][p[2]] = None
        /\ a[q[1]][q[2]] # None
        /\ Abs(p[1] - q[1]) + Abs(p[2] - q[2]) = 1
        /\ b = [a EXCEPT ![p[1]][p[2]] = a[q[1]][q[2]], ![q[1]][q[2]] = None]

RECURSIVE RootOf(_)
RootOf(node) == IF node.parent = NoParent THEN node.state ELSE RootOf(node.parent[1])

RECURSIVE LinksAreMoves(_)
LinksAreMoves(node) ==
    \/ node.parent = NoParent
    \/ /\ OneBlankMove(node.parent[1].state, node.state)
       /\ LinksAreMoves(node.parent[1])

RECURSIVE Depth(_)
Depth(node) == IF node.parent = NoParent THEN 0 ELSE 1 + Depth(node.parent[1])

Returned == pc \in {"solved", "exhausted", "printed"}

\* C1: a returned node ends a chain of parent links that starts at the
\* initial state, ends at the goal and advances by one move of the blank per
\* link; print_solution walks it and prints it from the initial state to the goal.
C1_PathValid ==
    (Returned /\ solution # <<>>) =>
        /\ solution[1].state = GoalState
        /\ RootOf(solution[1]) = initial_state
        /\ LinksAreMoves(solution[1])
        /\ pc = "printed" =>
              /\ output.kind = "START"
              /\ Len(output.states) = Depth(solution[1]) + 1
              /\ output.states[1] = initial_state
              /\ output.states[Len(output.states)] = GoalState
              /\ \A i \in 1..(Len(output.states) - 1) :
                     OneBlankMove(output.states[i], output.states[i + 1])

C1_Witness ==
    /\ pc = "printed"
    /\ size = BOARD_SIZE
    /\ output.kind = "START"
    /\ Len(output.states) = MaxScramble + 1

\* C2: the returned path has as many moves as the shortest path to the goal.
C2_Optimal ==
    pc = "solved" => Depth(solution[1]) = Distance(initial_state)

\* C3: started on the goal arrangement, solve_puzzle returns a node whose
\* path is that single state.
C3_GoalInputSolved ==
    (Returned /\ initial_state = GoalState) =>
        /\ solution # <<>>
        /\ Depth(solution[1]) = 0
        /\ solution[1].state = initial_state

\* C4: an input one move from the goal yields a path of 2 states, an input
\* two moves from the goal a path of 3 states, however ties are resolved.
C4_NearGoal ==
    Returned =>
        LET d == DistWithin(initial_state, 3)
        IN  /\ d = 1 => (solution # <<>> /\ Len(stack_of(solution[1])) = 2)
            /\ d = 2 => (solution # <<>> /\ Len(stack_of(solution[1])) = 3)

C4_Witness ==
    /\ pc = "solved"
    /\ size = BOARD_SIZE
    /\ DistWithin(initial_state, 3) = 2
    /\ Len(stack_of(solution[1])) = 3

\* C5: on an input of odd inversion count the loop ends: the queue becomes
\* empty and None is returned.
C5_UnsolvableTerminates ==
    (~is_problem_solvable(flatten(initial_state)))
        => <>(pc = "exhausted" /\ queue = {} /\ solution = <<>>)

C5_Witness ==
    /\ pc = "exhausted"
    /\ ~is_problem_solvable(flatten(initial_state))
    /\ Cardinality(visited_states) > 1

\* C6: a generated state is a valid grid, passes is_problem_solvable, and the
\* goal can be reached from it by legal moves of the blank.
C6_GeneratedSolvable ==
    pc = "generated" =>
        /\ ValidGrid(generated_state)
        /\ is_problem_solvable(flatten(generated_state))
        /\ generated_state \in SolvableShuffles

C6_Witness ==
    /\ pc = "generated"
    /\ generated_state # GoalState
    /\ generated_state \in SolvableShuffles

\* C7: on a valid grid of even inversion count, which the generator can
\* produce, the search never ends with the queue empty.
C7_GeneratedAlwaysSolved ==
    (ValidGrid(initial_state) /\ is_problem_solvable(flatten(initial_state)))
        => pc # "exhausted"

\* The sum over the tiles, the empty cell left out, of the distance between a
\* tile's cell and row (v-1) div N, column (v-1) mod N.
TileDistance(state) ==
    LET d(p) == LET v == state[p[1]][p[2]]
                IN  IF v = None THEN 0
                    ELSE Abs(((v - 1) \div size) - (p[1] - 1))
                         + Abs(((v - 1) % size) - (p[2] - 1))
        RECURSIVE Sum(_)
        Sum(S) == IF S = {} THEN 0
                  ELSE LET p == CHOOSE x \in S : TRUE IN d(p) + Sum(S \ {p})
    IN  Sum(Cells)

\* C8: heuristic_cost is the Manhattan sum over the tiles; the empty cell adds 0.
C8_TilesOnly == pc = "evaluated" => cost = TileDistance(grid)

\* C9: within MaxScramble moves of the goal, heuristic_cost never exceeds the
\* least number of moves to the goal.
C9_Admissible ==
    (pc = "evaluated" /\ grid \in Ball(MaxScramble))
        => cost <= DistWithin(grid, MaxScramble)

TilesHome(state) ==
    \A p \in Cells :
        LET v == state[p[1]][p[2]]
        IN  v # None => /\ p[1] - 1 = (v - 1) \div size
                        /\ p[2] - 1 = (v - 1) % size

\* C10: heuristic_cost is 0 exactly when every tile is on its goal cell, which
\* is exactly when the grid is the goal arrangement.
C10_ZeroIffGoal ==
    pc = "evaluated" =>
        /\ (cost = 0) <=> TilesHome(grid)
        /\ (cost = 0) <=> (grid = GoalState)

C10_Witness ==
    /\ pc = "evaluated"
    /\ grid = GoalState
    /\ cost = 0

-----------------------------------------------------------------------------
(* Claims about the moves.                                                 *)

\* C11: on a valid grid, after any legal move the opposite move is legal from
\* the empty cell's new position, and making it gives back the original grid.
C11_MoveUndone ==
    ValidGrid(grid) =>
        /\ pc = "moved" =>
               \E back \in Range(get_available_actions(moved)) :
                   back.move = Opposite(called.move)
        /\ pc = "restored" =>
               \A p \in Cells : restored[p[1]][p[2]] = grid[p[1]][p[2]]

C11_Witness ==
    /\ pc = "restored"
    /\ ValidGrid(grid)
    /\ called.move = "left"
    /\ moved # grid
    /\ restored = grid

Directions == <<"up", "down", "left", "right">>

\* The cell a move in direction d exchanges with cell p (rows and columns
\* numbered from 1 here, as in Cells).
Target(p, d) ==
    CASE d = "up" -> <<p[1] - 1, p[2]>>
      [] d = "down" -> <<p[1] + 1, p[2]>>
      [] d = "left" -> <<p[1], p[2] - 1>>
      [] d = "right" -> <<p[1], p[2] + 1>>

\* C18: for a valid grid get_available_actions returns exactly the moves whose
\* target cell lies on the board, in the order up, down, left, right, and
\* calling one of them exchanges the empty cell with the tile of its target
\* cell and leaves every other cell as it was.
C18_LegalMovesInOrder ==
    (pc # "grid" /\ ValidGrid(grid)) =>
        LET blank == CHOOSE p \in Cells : grid[p[1]][p[2]] = None
            OnBoard(d) == Target(blank, d) \in Cells
        IN  /\ [i \in 1..Len(available_actions) |-> available_actions[i].move]
                   = SelectSeq(Directions, OnBoard)
            /\ pc \in {"moved", "restored"} =>
                   LET target == Target(blank, called.move)
                   IN  \A p \in Cells :
                           moved[p[1]][p[2]] =
                               IF p = blank THEN grid[target[1]][target[2]]
                               ELSE IF p = target THEN None
                               ELSE grid[p[1]][p[2]]

C18_Witness ==
    /\ pc = "moved"
    /\ ValidGrid(grid)
    /\ Len(available_actions) = Len(Directions)
    /\ called.move = "right"

\* C12: a grid in which no cell is empty is rejected: get_available_actions
\* returns no move for it and no successor grid is made from it.
C12_NoEmptyCellRejected ==
    (pc # "grid" /\ \A p \in Cells : grid[p[1]][p[2]] # None) =>
        /\ available_actions = <<>>
        /\ moved = <<>>

-----------------------------------------------------------------------------
(* Claims about the frontier and the visited set.                          *)

\* C14: no grid is expanded twice: the grid of the entry a pass of the loop
\* pops is not yet in the visited set, that is, was not popped before.
C14_ExpandedOnce ==
    [][\A e \in queue \ queue' : e.node.state \notin visited_states]_vars

\* C15: every entry of the frontier carries the priority f = g + h, g the
\* number of moves from the root to its node and h the heuristic cost of its
\* grid; the root entry carries h(root).
C15_PriorityIsGPlusH ==
    \A e \in queue : e.cost = Depth(e.node) + heuristic_cost(e.node.state)

\* C16: the order in which entries of equal priority are popped is fixed: at
\* every pass of the loop only one entry can be the one queue.get() returns,
\* so two runs on the same initial state pop the same grids and return the
\* same result.
C16_PopOrderFixed ==
    pc = "search" => \A e \in Lowest(queue), f \in Lowest(queue) : e = f

\* C17: a pass of the loop leaves every grid it was given as it was: the
\* popped grid goes into the visited set unchanged, every entry that stays in
\* the frontier stays as it was, and every node made in the pass holds a new
\* grid, one blank move away from the popped grid, with the popped node,
\* unchanged, as its parent.
C17_GridsUntouched ==
    [][(pc = "search" /\ queue # {}) =>
          \E e \in queue \ queue' :
              LET made == {f.node : f \in queue' \ queue}
                          \cup (IF solution' = <<>> THEN {} ELSE {solution'[1]})
              IN  /\ visited_states' = visited_states \cup {e.node.state}
                  /\ \A f \in queue \ {e} : f \in queue'
                  /\ \A node \in made :
                         /\ node.parent = <<e.node>>
                         /\ node.state # e.node.state
                         /\ OneBlankMove(e.node.state, node.state)]_vars

C17_Witness ==
    /\ pc = "search"
    /\ size = BOARD_SIZE
    /\ \E e \in queue, f \in queue :
           /\ e.node.parent # NoParent
           /\ e.node.parent = f.node.parent
           /\ e.node.state # f.node.state
           /\ Depth(e.node) >= 2

\* The nodes of the chain of parent links that starts at node.
RECURSIVE Chain(_)
Chain(node) ==
    {node} \cup (IF node.parent = NoParent THEN {} ELSE Chain(node.parent[1]))

\* Every node the search holds: those of the frontier, the returned one, and
\* their ancestors.
Nodes ==
    UNION {Chain(e.node) : e \in queue}
        \cup (IF solution = <<>> THEN {} ELSE Chain(solution[1]))

\* C19: every grid held by the search, in a node of the frontier, in the
\* visited set or on a chain of parent links, is a grid of BOARD_SIZE rows of
\* BOARD_SIZE cells holding each tile 1..N*N-1 once and one empty cell.
C19_GridsValid ==
    /\ \A node \in Nodes : ValidGrid(node.state)
    /\ \A state \in visited_states : ValidGrid(state)

C19_Witness ==
    /\ pc = "search"
    /\ size = BOARD_SIZE
    /\ Cardinality(visited_states) >= 3
    /\ Cardinality(queue) >= 3
    /\ \E node \in Nodes : Depth(node) >= 3

\* C20: the grid of a node differs from the grid of each of its ancestors, so
\* no arrangement occurs twice on the path to a returned node.
C20_NoRepeatOnChain ==
    \A node \in Nodes :
        \A ancestor \in Chain(node) \ {node} : ancestor.state # node.state

C20_Witness ==
    /\ pc = "solved"
    /\ size = BOARD_SIZE
    /\ Depth(solution[1]) >= 3
    /\ Cardinality({node.state : node \in Chain(solution[1])}) = Depth(solution[1]) + 1

-----------------------------------------------------------------------------
(* Claims about 8_queens.py.                                               *)

Queens == {p \in (1..queens_size) \X (1..queens_size) : board[p[1]][p[2]]}

\* C13: on an empty board of size N >= 4 backtracking returns True, and the
\* board then holds exactly N queens, one in each column, no two of them in
\* the same row, column or diagonal.
C13_QueensPlaced ==
    (pc = "returned" /\ queens_size >= 4) =>
        /\ result = <<TRUE>>
        /\ Cardinality(Queens) = queens_size
        /\ \A c \in 1..queens_size : \E p \in Queens : p[2] = c
        /\ \A p \in Queens, q \in Queens :
               p # q =>
                   /\ p[1] # q[1]
                   /\ p[2] # q[2]
                   /\ Abs(p[1] - q[1]) # Abs(p[2] - q[2])

C13_Witness ==
    /\ pc = "returned"
    /\ queens_size = QUEENS_BOARD_SIZE
    /\ result = <<TRUE>>
    /\ Cardinality(Queens) = QUEENS_BOARD_SIZE

====
